---- MODULE Spec2Model ----
(***************************************************************************)
(* Model of src/app.py: a Streamlit script that keeps body measurements in *)
(* a Google Sheets worksheet.  Every user interaction re-executes the      *)
(* script from the top, so one action of the model is one script run (plus *)
(* the run started by st.rerun(), when the handler asks for one).          *)
(*                                                                         *)
(* Encoding of cell values                                                 *)
(*   Date   : an ISO "YYYY-MM-DD" string is represented by its day         *)
(*            ordinal; BadDate is a text that is no date; NoneDate is the  *)
(*            None of a cell the editor left blank.                        *)
(*   Weight : tenths of a kilogram (the widgets step by 0.1); NonNumeric   *)
(*            is a cell pd.to_numeric cannot parse; NaN is the coerced     *)
(*            value.  SMM likewise.                                        *)
(*   The values of the Date_Obj column are not stored: every reader of the *)
(*   column (line 86, 91, 96) runs right after line 85 recomputed it from  *)
(*   Date, so only the presence of the column is state.                    *)
(* Arithmetic is exact (rationals as numerator/denominator); floating      *)
(* point rounding is not modelled.  r_squared (line 110) is not modelled:  *)
(* no caller reads it.                                                     *)
(***************************************************************************)
EXTENDS Integers, Sequences, FiniteSets, TLC

\* ---------------------------------------------------------------- bounds
MaxRows == 2          \* data rows the worksheet may hold

\* ------------------------------------------------------------ value sets
Today == 40                       \* the day the session takes place
Dates == {26, 40}                 \* dates the user picks (day ordinals)
BadDate == 99                     \* a Date text pd.to_datetime cannot parse
NoneDate == 98                    \* None in the Date cell of an added row
Weights == {0, 797, 800}          \* number_input values, tenths of kg
SMMs == {350}
NonNumeric == -1                  \* a cell pd.to_numeric cannot parse
NaN == -2
None == [none |-> TRUE]            \* Python None
Worksheet == [title |-> "V-Taper-Tracker"]   \* the handle get_google_sheet returns

ExpectedCols == <<"Date", "Weight", "SMM">>

Range(s) == {s[i] : i \in DOMAIN s}

\* --------------------------------------------------------- the worksheet
\* A worksheet is its grid of rows; a row is either a row of column names
\* or a row of cells.
HeaderRow(cols) == [hdr |-> cols]
IsHeader(r) == "hdr" \in DOMAIN r
Row(d, w, s) == [Date |-> d, Weight |-> w, SMM |-> s]

\* pd.DataFrame(columns=['Date', 'Weight', 'SMM'])
EmptyDF == [cols |-> ExpectedCols, rows |-> <<>>]

\* gspread get_all_records as load_data uses it: row 1 gives the keys, the
\* rows below it the records.  The keys are the column names only when row 1
\* is a header row; a data row in row 1 yields keys that are its cell values.
get_all_records(grid) ==
    IF grid = <<>> THEN [keys |-> <<>>, records |-> <<>>]
    ELSE IF IsHeader(grid[1]) THEN [keys |-> grid[1].hdr, records |-> Tail(grid)]
    ELSE [keys |-> <<"cell", "cell", "cell">>, records |-> Tail(grid)]

\* load_data: sheet is the handle, raises says whether the backend call
\* raised.  pd.DataFrame of an empty record list has no columns at all.
load_data(sheet, grid, raises) ==
    IF sheet = None THEN EmptyDF
    ELSE IF raises THEN EmptyDF
    ELSE LET data == get_all_records(grid)
             cols == IF data.records = <<>> THEN <<>> ELSE data.keys
         IN  IF ~ (\A c \in Range(ExpectedCols) : c \in Range(cols))
             THEN EmptyDF
             ELSE [cols |-> cols, rows |-> data.records]

\* The records the worksheet holds under the Date/Weight/SMM schema.
Persisted(grid) == load_data(Worksheet, grid, FALSE).rows

\* ------------------------------------------------------- calculate_slope
\* now = [day, midnight]: datetime.now() carries a time of day, Date_Obj is
\* a midnight; Date_Obj >= now - days admits the day (now.day - days) itself
\* only when now is a midnight.
InWindow(d, days, now) ==
    IF now.midnight THEN d >= now.day - days ELSE d > now.day - days

IsDate(d) == d # BadDate /\ d # NoneDate          \* pd.to_datetime(..., coerce) is not NaT
to_numeric(v) == IF v = NonNumeric THEN NaN ELSE v \* pd.to_numeric(..., errors='coerce')
fillna0(v) == IF v = NaN THEN 0 ELSE v             \* .fillna(0.0)

RECURSIVE Sum(_)
Sum(s) == IF s = <<>> THEN 0 ELSE Head(s) + Sum(Tail(s))

\* scipy.stats.linregress slope as the exact fraction num/den:
\*   (n*Sum(xy) - Sum(x)*Sum(y)) / (n*Sum(xx) - Sum(x)^2)
linregress(rs) ==
    LET n == Len(rs)
        x == [i \in DOMAIN rs |-> rs[i].Date]
        y == [i \in DOMAIN rs |-> rs[i].Weight]
        xy == [i \in DOMAIN rs |-> x[i] * y[i]]
        xx == [i \in DOMAIN rs |-> x[i] * x[i]]
    IN  [num |-> n * Sum(xy) - Sum(x) * Sum(y),
         den |-> n * Sum(xx) - Sum(x) * Sum(x)]

\* Line 85: assigning dataframe['Date_Obj'] adds the column to the caller's
\* frame, or overwrites it when it is there.
WithDateObj(cols) ==
    IF "Date_Obj" \in Range(cols) THEN cols ELSE Append(cols, "Date_Obj")

\* calculate_slope without the second length check (line 102).
calculate_slope_NoRecheck(dataframe, days, now, degenerate) ==
    IF dataframe.rows = <<>> \/ "Date" \notin Range(dataframe.cols)
    THEN [frame |-> dataframe, ret |-> None]
    ELSE
    LET frame == [dataframe EXCEPT !.cols = WithDateObj(@)]
        dated == SelectSeq(dataframe.rows, LAMBDA r : IsDate(r.Date))
        recent_df == SelectSeq(dated, LAMBDA r : InWindow(r.Date, days, now))
        coerced == [i \in DOMAIN recent_df |->
                       [recent_df[i] EXCEPT !.Weight = to_numeric(@)]]
        numeric == SelectSeq(coerced, LAMBDA r : r.Weight # NaN)
        fit == linregress(numeric)
    IN  IF Len(recent_df) < 2 THEN [frame |-> frame, ret |-> None]
        ELSE IF Len(numeric) < 1 THEN [frame |-> frame, ret |-> None]
        ELSE IF fit.den = 0 /\ degenerate = "raise" THEN [frame |-> frame, ret |-> None]
        ELSE [frame |-> frame,
              ret |-> [slope |-> fit,
                       count |-> Len(numeric),
                       current_weight |-> numeric[Len(numeric)].Weight]]

\* calculate_slope(dataframe, days).  frame is the caller's DataFrame as the
\* call leaves it, ret the returned value.  degenerate is what linregress does
\* when all x are identical: "raise" (ValueError, caught by the bare except)
\* or "nan" (older scipy: a slope of nan).
calculate_slope(dataframe, days, now, degenerate) ==
    IF dataframe.rows = <<>> \/ "Date" \notin Range(dataframe.cols)
    THEN [frame |-> dataframe, ret |-> None]
    ELSE
    LET frame == [dataframe EXCEPT !.cols = WithDateObj(@)]
        dated == SelectSeq(dataframe.rows, LAMBDA r : IsDate(r.Date))
        recent_df == SelectSeq(dated, LAMBDA r : InWindow(r.Date, days, now))
        coerced == [i \in DOMAIN recent_df |->
                       [recent_df[i] EXCEPT !.Weight = to_numeric(@)]]
        numeric == SelectSeq(coerced, LAMBDA r : r.Weight # NaN)
        fit == linregress(numeric)
    IN  IF Len(recent_df) < 2 THEN [frame |-> frame, ret |-> None]
        ELSE IF Len(numeric) < 2 THEN [frame |-> frame, ret |-> None]
        ELSE IF fit.den = 0 /\ degenerate = "raise" THEN [frame |-> frame, ret |-> None]
        ELSE [frame |-> frame,
              ret |-> [slope |-> fit,
                       count |-> Len(numeric),
                       current_weight |-> numeric[Len(numeric)].Weight]]

\* ------------------------------------------------------ display_analysis
\* The message display_analysis shows under the metrics, from
\* monthly_gain_percent p = (slope * 30 / current_weight) * 100 with
\* slope = num/den, den > 0 and current_weight = cw > 0:
\*   p > 1.5  <=>  2*3000*num > 3*den*cw,   0.5 <= p  <=>  2*3000*num >= den*cw,
\*   p <= 1.0 <=>  3000*num <= den*cw,      p < 0     <=>  num < 0.
\* A nan slope (den = 0) fails every comparison.
Zone(res) ==
    LET num == res.slope.num
        den == res.slope.den
        cw  == res.current_weight
    IN  IF ~ (cw > 0) THEN "weight error"
        ELSE IF den = 0 THEN "none"
        ELSE IF 2 * 3000 * num > 3 * den * cw THEN "Dirty Bulk"
        ELSE IF 2 * 3000 * num >= den * cw /\ 3000 * num <= den * cw THEN "Lean Bulk"
        ELSE IF num < 0 THEN "Cutting"
        ELSE "none"

display_analysis(days, dataframe, now, degenerate) ==
    LET call == calculate_slope(dataframe, days, now, degenerate)
    IN  [frame |-> call.frame,
         res |-> call.ret,
         zone |-> IF call.ret # None THEN Zone(call.ret) ELSE "insufficient"]

\* ------------------------------------------------------------ the script
VARIABLES
    sheet,      \* the handle of line 37: Worksheet, or None when connecting failed
    grid,       \* the rows of the worksheet, the persisted store
    now,        \* datetime.now() during the session: [day, midnight]
    scipy,      \* what the installed linregress does when all x are identical
    loaded,     \* what load_data returned on line 57 of the latest script run
    df,         \* the module-level df as the latest script run left it
    panel,      \* what the two analysis columns of the latest run showed
    last        \* the click the latest action handled (op, the row entered, the
                \* kind of edit) and what its handler did

vars == <<sheet, grid, now, scipy, loaded, df, panel, last>>

Blank == [blank |-> TRUE]         \* the main screen was not rendered
NoRow == Row(NoneDate, NaN, NaN)

\* Line 146.
MainScreen(frame) == frame.rows # <<>> /\ "Date" \in Range(frame.cols)

\* Lines 146-164 and 208-210: the two display_analysis calls on df, the second
\* on the frame the first one left.
MainBody(frame) ==
    IF MainScreen(frame)
    THEN LET a14 == display_analysis(14, frame, now, scipy)
             a30 == display_analysis(30, a14.frame, now, scipy)
         IN  [df |-> a30.frame,
              panel |-> [at |-> now,
                         w14 |-> [res |-> a14.res, zone |-> a14.zone],
                         w30 |-> [res |-> a30.res, zone |-> a30.zone]]]
    ELSE [df |-> frame, panel |-> Blank]

\* One execution of the script in which no button is down.
ScriptRun(g, raises) ==
    LET d0 == load_data(sheet, g, raises)
        body == MainBody(d0)
    IN  [loaded |-> d0, df |-> body.df, panel |-> body.panel]

\* ------------------------------------------------------ the save button
\* The save button without st.rerun(): the script goes on with the df it has.
save_button_NoRerun(handle, g, new_row, raises) ==
    IF handle # None
    THEN IF raises
         THEN [grid |-> g, outcome |-> "fail", report |-> "exception",
               cleared |-> FALSE, rerun |-> FALSE, stop |-> TRUE]
         ELSE [grid |-> Append(g, new_row), outcome |-> "ok", report |-> "success",
               cleared |-> TRUE, rerun |-> FALSE, stop |-> FALSE]
    ELSE [grid |-> g, outcome |-> "fail", report |-> "error",
          cleared |-> FALSE, rerun |-> FALSE, stop |-> FALSE]

\* Lines 66-76.  raises: sheet.append_row raised; nothing catches it, the
\* script run ends there and Streamlit shows the exception.
save_button(handle, g, new_row, raises) ==
    IF handle # None
    THEN IF raises
         THEN [grid |-> g, outcome |-> "fail", report |-> "exception",
               cleared |-> FALSE, rerun |-> FALSE, stop |-> TRUE]
         ELSE [grid |-> Append(g, new_row), outcome |-> "ok", report |-> "success",
               cleared |-> TRUE, rerun |-> TRUE, stop |-> TRUE]
    ELSE [grid |-> g, outcome |-> "fail", report |-> "error",
          cleared |-> FALSE, rerun |-> FALSE, stop |-> FALSE]

\* ------------------------------------------------------ the data editor
\* df.sort_values(by='Date', ascending=False): the Date strings compared as
\* text, so an ISO date by its day and a non-date text (letters) above every
\* date; rows with equal Date keep their order.
RECURSIVE InsertDesc(_, _)
InsertDesc(r, s) ==
    IF s = <<>> THEN <<r>>
    ELSE IF Head(s).Date >= r.Date THEN <<Head(s)>> \o InsertDesc(r, Tail(s))
    ELSE <<r>> \o s

RECURSIVE sort_values_desc(_)
sort_values_desc(s) ==
    IF s = <<>> THEN <<>>
    ELSE InsertDesc(s[Len(s)], sort_values_desc(SubSeq(s, 1, Len(s) - 1)))

\* What the user did in the editor (num_rows="dynamic").
Edits ==
    {[kind |-> "none", i |-> 1, row |-> NoRow]}
    \cup {[kind |-> "delete", i |-> i, row |-> NoRow] : i \in 1..MaxRows}
    \cup {[kind |-> "weight", i |-> i, row |-> Row(NoneDate, w, NaN)] :
             i \in 1..MaxRows, w \in {797, NonNumeric}}
    \cup {[kind |-> "add", i |-> 1, row |-> Row(d, w, s)] :
             d \in {40, NoneDate}, w \in {800, NonNumeric}, s \in SMMs}

CanEdit(rows, e) ==
    CASE e.kind = "none" -> TRUE
      [] e.kind = "add" -> Len(rows) < MaxRows
      [] OTHER -> e.i <= Len(rows)

data_editor(frame, e) ==
    LET shown == sort_values_desc(frame.rows)
    IN  [cols |-> frame.cols,
         rows |-> CASE e.kind = "none" -> shown
                    [] e.kind = "delete" ->
                         SubSeq(shown, 1, e.i - 1) \o SubSeq(shown, e.i + 1, Len(shown))
                    [] e.kind = "weight" ->
                         [shown EXCEPT ![e.i].Weight = e.row.Weight]
                    [] e.kind = "add" -> Append(shown, e.row)]

\* ------------------------------------------------------ the sync button
\* Line 189: str(x) of a text is the text, of None the text "None".
DateToStr(x) == IF x = NoneDate THEN BadDate ELSE x

\* Lines 185-196.
data_to_upload(edited_df) ==
    <<HeaderRow(edited_df.cols)>> \o
    [i \in DOMAIN edited_df.rows |->
        Row(DateToStr(edited_df.rows[i].Date),
            fillna0(to_numeric(edited_df.rows[i].Weight)),
            fillna0(to_numeric(edited_df.rows[i].SMM)))]

\* The sync button with the cache clearing and the rerun after the try
\* statement instead of inside it.
sync_button_AlwaysRerun(handle, g, edited_df, clear_raises, append_raises) ==
    IF handle = None
    THEN [grid |-> g, outcome |-> "fail", report |-> "none",
          cleared |-> FALSE, rerun |-> FALSE]
    ELSE IF clear_raises
    THEN [grid |-> g, outcome |-> "fail", report |-> "error",
          cleared |-> TRUE, rerun |-> TRUE]
    ELSE IF append_raises
    THEN [grid |-> <<>>, outcome |-> "fail", report |-> "error",
          cleared |-> TRUE, rerun |-> TRUE]
    ELSE [grid |-> data_to_upload(edited_df), outcome |-> "ok", report |-> "success",
          cleared |-> TRUE, rerun |-> TRUE]

\* Lines 181-207.  clear_raises: sheet.clear() raised; append_raises:
\* sheet.append_rows raised (a failed request, or a cell the request cannot
\* encode: the Date_Obj cells are Timestamps).  Each is one request to the
\* backend, which either took effect or did not.
sync_button(handle, g, edited_df, clear_raises, append_raises) ==
    IF handle = None
    THEN [grid |-> g, outcome |-> "fail", report |-> "none",
          cleared |-> FALSE, rerun |-> FALSE]
    ELSE IF clear_raises
    THEN [grid |-> g, outcome |-> "fail", report |-> "error",
          cleared |-> FALSE, rerun |-> FALSE]
    ELSE IF append_raises
    THEN [grid |-> <<>>, outcome |-> "fail", report |-> "error",
          cleared |-> FALSE, rerun |-> FALSE]
    ELSE [grid |-> data_to_upload(edited_df), outcome |-> "ok", report |-> "success",
          cleared |-> TRUE, rerun |-> TRUE]

\* --------------------------------------------------------------- Init
H3 == HeaderRow(ExpectedCols)

\* Worksheets the app may be pointed at: blank, header only (line 210),
\* with records (saved in date order, or a later date saved first), with
\* cells typed in by hand, with a wrong column name.
InitGrids ==
    { <<>>,
      <<H3>>,
      <<H3, Row(26, 797, 350), Row(40, 800, 350)>>,
      <<H3, Row(40, 800, 350), Row(26, 800, 350)>>,
      <<H3, Row(40, NonNumeric, NonNumeric), Row(26, 800, 350)>>,
      <<HeaderRow(<<"Day", "Weight", "SMM">>), Row(40, 800, 350)>> }

Init ==
    /\ sheet \in {None, Worksheet}
    /\ grid \in InitGrids
    /\ now \in {[day |-> Today, midnight |-> m] : m \in BOOLEAN}
    /\ scipy \in {"raise", "nan"}
    /\ loaded = EmptyDF
    /\ df = EmptyDF
    /\ panel = Blank
    /\ last = [op |-> "none", outcome |-> "none", report |-> "none",
               cleared |-> FALSE, reran |-> FALSE, input |-> NoRow, edit |-> "none"]

DataRows(g) == Cardinality({i \in DOMAIN g : ~ IsHeader(g[i])})

\* Which backend calls of a script run raise.  A call that is not reached
\* raises nothing.
NoFault == [load |-> FALSE, write |-> "none", reload |-> FALSE]
SaveFaults ==
    { NoFault, [NoFault EXCEPT !.reload = TRUE],
      [NoFault EXCEPT !.write = "append_row"],
      [NoFault EXCEPT !.write = "append_row", !.load = TRUE] }
SyncFaults ==
    { NoFault, [NoFault EXCEPT !.reload = TRUE],
      [NoFault EXCEPT !.write = "clear"],
      [NoFault EXCEPT !.write = "append_rows"] }

\* ------------------------------------------------------------- actions
\* A script run with no button down (page load, a widget changed).
View ==
    \E raises \in BOOLEAN :
    \E run \in {ScriptRun(grid, raises)} :
        /\ loaded' = run.loaded
        /\ df' = run.df
        /\ panel' = run.panel
        /\ last' = [op |-> "view", outcome |-> "none", report |-> "none",
                    cleared |-> FALSE, reran |-> FALSE, input |-> NoRow, edit |-> "none"]
        /\ UNCHANGED <<sheet, grid, now, scipy>>

\* The script run of a click on the save button, and the run st.rerun()
\* starts when the handler asks for it.
SaveClick ==
    /\ DataRows(grid) < MaxRows
    /\ \E d \in Dates, w \in Weights, s \in SMMs, f \in SaveFaults :
       \E h \in {save_button(sheet, grid, Row(d, w, s), f.write = "append_row")} :
       \E d0 \in {load_data(sheet, grid, f.load)} :
       \E run \in {IF h.rerun THEN ScriptRun(h.grid, f.reload)
                   ELSE IF h.stop THEN [loaded |-> d0, df |-> d0, panel |-> Blank]
                   ELSE [loaded |-> d0] @@ MainBody(d0)} :
        /\ grid' = h.grid
        /\ loaded' = run.loaded
        /\ df' = run.df
        /\ panel' = run.panel
        /\ last' = [op |-> "save", outcome |-> h.outcome, report |-> h.report,
                    cleared |-> h.cleared, reran |-> h.rerun, input |-> Row(d, w, s),
                    edit |-> "none"]
        /\ UNCHANGED <<sheet, now, scipy>>

\* The script run of a click on the sync button: the button exists only when
\* the load of this run rendered the main screen.
SyncClick ==
    \E d0 \in {load_data(sheet, grid, FALSE)} :
        /\ MainScreen(d0)
        /\ \E body \in {MainBody(d0)} :
           \E e \in Edits, f \in SyncFaults :
            /\ CanEdit(d0.rows, e)
            /\ \E h \in {sync_button(sheet, grid, data_editor(body.df, e),
                                     f.write = "clear", f.write = "append_rows")} :
               \E run \in {IF h.rerun THEN ScriptRun(h.grid, f.reload)
                           ELSE [loaded |-> d0] @@ body} :
                /\ grid' = h.grid
                /\ loaded' = run.loaded
                /\ df' = run.df
                /\ panel' = run.panel
                /\ last' = [op |-> "sync", outcome |-> h.outcome, report |-> h.report,
                            cleared |-> h.cleared, reran |-> h.rerun, input |-> NoRow,
                            edit |-> e.kind]
                /\ UNCHANGED <<sheet, now, scipy>>

Next == View \/ SaveClick \/ SyncClick

Spec == Init /\ [][Next]_vars

\* ------------------------------------------------------------- claims
\* The rows of the worksheet that are records.
Records(g) == SelectSeq(g, LAMBDA r : ~ IsHeader(r))
UniqueDates(rs) == \A i, j \in DOMAIN rs : i # j => rs[i].Date # rs[j].Date

\* C1: the persisted store holds at most one record per date, after any
\* sequence of saves and synchronisations from a store with unique dates.
C1_OneRecordPerDate == UniqueDates(Records(grid))

\* C2: a successful save of the triple the previous successful save wrote
\* leaves the size and content of the persisted store as they were.
C2_UpsertIdempotent ==
    [][(/\ last.op = "save" /\ last.outcome = "ok"
        /\ last'.op = "save" /\ last'.outcome = "ok"
        /\ last'.input = last.input)
       => Records(grid') = Records(grid)]_vars

\* The grids a synchronisation of the present store can mean to write.
NewGrids(g) ==
    LET body == MainBody(load_data(sheet, g, FALSE))
    IN  {data_to_upload(data_editor(body.df, e)) : e \in Edits}

\* C3: a synchronisation, failed or not, leaves the persisted store equal to
\* the complete prior content or to the complete new content.
C3_ReplaceAllOrNothing ==
    [][last'.op = "sync" => (grid' = grid \/ grid' \in NewGrids(grid))]_vars

\* C4: after a successful save or synchronisation the cache was cleared and
\* the script ran again, and the record set the main screen analyses and
\* offers for editing is the persisted record set as the write left it.
C4_FreshViewAfterWrite ==
    (last.op \in {"save", "sync"} /\ last.outcome = "ok")
    => /\ last.cleared
       /\ last.reran
       /\ MainScreen(df) => df.rows = Persisted(grid)

C4_Witness ==
    /\ last.op = "save" /\ last.outcome = "ok"
    /\ MainScreen(df)
    /\ Len(df.rows) >= 2
    /\ df.rows[Len(df.rows)] = last.input

\* C5: a save or synchronisation whose store mutation fails clears no cache
\* and starts no rerun, reports the failure, and leaves in memory the record
\* set this script run loaded before the write was attempted.
C5_FailureKeepsView ==
    [][last'.outcome = "fail"
       => /\ ~ last'.cleared
          /\ ~ last'.reran
          /\ last'.report \in {"error", "exception"}
          /\ loaded' \in {load_data(sheet, grid, r) : r \in BOOLEAN}
          /\ df'.rows = loaded'.rows]_vars

C5_Witness ==
    /\ last.op = "sync" /\ last.outcome = "fail" /\ last.report = "error"
    /\ grid = <<>>
    /\ df.rows # <<>>

\* The zone the six-row table gives for monthly_gain_percent
\* p = 3000*num / (den*cw), with den > 0 and cw > 0.
ClaimedZone(res) ==
    LET N == 3000 * res.slope.num
        D == res.slope.den * res.current_weight
    IN  IF 2 * N > 3 * D THEN "Dirty Bulk"
        ELSE IF N > D THEN "Fast Lane"
        ELSE IF 2 * N >= D THEN "Lean Bulk"
        ELSE IF 4 * N >= D THEN "Steady"
        ELSE IF N >= 0 THEN "Maintenance"
        ELSE "Cutting"

\* monthly_gain_percent is a finite number.
FinitePercent(res) ==
    res # None /\ res.current_weight > 0 /\ res.slope.den # 0

Shown == IF panel = Blank THEN {} ELSE {[days |-> 14] @@ panel.w14, [days |-> 30] @@ panel.w30}

\* C6: for every finite monthly_gain_percent the classifier shows the zone of
\* the six-row table.
C6_SixZones ==
    \A w \in Shown : FinitePercent(w.res) => w.zone = ClaimedZone(w.res)

\* The rows of the analysed frame that qualify for a window: a valid date
\* inside the window and a numeric weight.
Qualifying(days) ==
    {i \in DOMAIN df.rows :
        /\ IsDate(df.rows[i].Date)
        /\ InWindow(df.rows[i].Date, days, panel.at)
        /\ df.rows[i].Weight # NonNumeric}

\* C7: the reference weight analyze returns is the weight of the qualifying
\* record with the maximum date.
C7_ReferenceIsLatest ==
    \A w \in Shown :
        w.res # None =>
            \E i \in Qualifying(w.days) :
                /\ \A j \in Qualifying(w.days) : df.rows[j].Date <= df.rows[i].Date
                /\ w.res.current_weight = df.rows[i].Weight

\* C8: running the analysis leaves the loaded record set with the rows and
\* the fields it was loaded with.
C8_AnalysisLeavesFrame == df = loaded

\* A record set that is valid: real dates, one record per date, numeric
\* positive weight and muscle mass.
ValidSet(rs) ==
    /\ rs # <<>>
    /\ UniqueDates(rs)
    /\ \A i \in DOMAIN rs :
          IsDate(rs[i].Date) /\ rs[i].Weight > 0 /\ rs[i].SMM > 0

\* C9: synchronising the loaded record set back unedited leaves the persisted
\* set equal, as a set of (date, weight, SMM), to the original.
C9_RoundTrip ==
    [][(/\ last'.op = "sync" /\ last'.edit = "none"
        /\ ValidSet(Persisted(grid)))
       => Range(Persisted(grid')) = Range(Persisted(grid))]_vars

====
